---- MODULE Spec2Model ----
(***************************************************************************)
(* Model of services/ocr/main.py: a FastAPI application with two routes,   *)
(* GET /health and POST /ocr.  Both handlers are coroutines (async def)    *)
(* that run on the event loop of the server process that accepted the      *)
(* request.  ocr_pdf awaits the upload once (line 23) and then runs lines  *)
(* 25-54 without any further await: the temporary directory, the write of  *)
(* input.pdf, subprocess.run (a blocking wait), the read of output.pdf and *)
(* the directory's removal all happen while the coroutine holds its loop.  *)
(* Several server processes may serve the same application; they share    *)
(* the filesystem and nothing else.                                        *)
(***************************************************************************)
EXTENDS Integers, Sequences, FiniteSets, TLC

\* ---------------------------------------------------------------- bounds
NumRequests == 2          \* requests sent to the service, of either route
NumWorkers  == 2          \* server processes (one event loop each)
NumTmpNames == 2          \* names tempfile can draw for the directory
TickSeconds == 300        \* granularity of the wall clock

Requests == 1..NumRequests
Workers  == 1..NumWorkers
TmpNames == 1..NumTmpNames

\* ------------------------------------------------------ program constants
OCR_TIMEOUT_SECONDS == 300

\* ------------------------------------------------------------ input sets
\* the file request r uploads: every client sends a different document
Document(r) == "pdf" \o ToString(r)

\* ways a run of the tool can end: returncode (exit status, or minus the
\* signal that ended it), the bytes captured from its stderr, and whether it
\* wrote its output path
ToolRuns == {[returncode |-> 0,  stderr |-> <<>>,         writes |-> TRUE],
             [returncode |-> 0,  stderr |-> <<>>,         writes |-> FALSE],
             [returncode |-> 15, stderr |-> <<69, 255>>,  writes |-> FALSE],
             [returncode |-> -9, stderr |-> <<195, 169>>, writes |-> TRUE]}

\* ------------------------------------------------------------- sentinels
NoWorker == 0
NoDir    == 0
Idle     == 0
NoBytes  == "NONE"                        \* a Python name not yet bound
NoFile   == [kind |-> "absent"]
NoResult == [kind |-> "none"]
NoResp   == [kind |-> "none"]

\* -------------------------------------------------------------- str(int)
DigitChar(d) ==
    CASE d = 0 -> "0" [] d = 1 -> "1" [] d = 2 -> "2" [] d = 3 -> "3"
      [] d = 4 -> "4" [] d = 5 -> "5" [] d = 6 -> "6" [] d = 7 -> "7"
      [] d = 8 -> "8" [] d = 9 -> "9"

RECURSIVE NatStr(_)
NatStr(n) == IF n < 10 THEN DigitChar(n)
             ELSE NatStr(n \div 10) \o DigitChar(n % 10)

\* format of {result.returncode} inside the f-string of line 47
IntStr(n) == IF n < 0 THEN "-" \o NatStr(0 - n) ELSE NatStr(n)

\* ----------------------------------- bytes.decode("utf-8", errors="replace")
\* Code points are written the way Python's repr escapes them.
Chr(cp) ==
    CASE cp = 69    -> "E"
      [] cp = 233   -> "\\xe9"
      [] cp = 65533 -> "\\ufffd"
      [] OTHER      -> "\\u" \o NatStr(cp)

IsContinuation(b) == b >= 128 /\ b <= 191
IsLead2(b)        == b >= 194 /\ b <= 223

\* One- and two-byte forms; every other byte is replaced by U+FFFD.  The
\* samples of StderrSamples contain no lead byte of a longer form.
RECURSIVE Decode(_)
Decode(bs) ==
    IF bs = <<>> THEN ""
    ELSE IF Head(bs) < 128
         THEN Chr(Head(bs)) \o Decode(Tail(bs))
    ELSE IF IsLead2(Head(bs)) /\ Len(bs) >= 2 /\ IsContinuation(bs[2])
         THEN Chr((Head(bs) - 192) * 64 + (bs[2] - 128))
              \o Decode(Tail(Tail(bs)))
    ELSE Chr(65533) \o Decode(Tail(bs))

\* ------------------------------------------------------------- responses
\* the same response with status_code left at its default
FailureResponseDefaultStatus(res) ==
    [status |-> 200, media_type |-> "text/plain",
     content |-> "ocrmypdf failed (exit " \o IntStr(res.returncode)
                 \o "): " \o Decode(res.stderr)]

\* Response(content=..., status_code=422, media_type="text/plain"), l.46-50
FailureResponse(res) ==
    [status |-> 422, media_type |-> "text/plain",
     content |-> "ocrmypdf failed (exit " \o IntStr(res.returncode)
                 \o "): " \o Decode(res.stderr)]

\* the success response without media_type
SuccessResponseNoType(bytes) ==
    [status |-> 200, media_type |-> "none", content |-> bytes]

\* Response(content=ocr_bytes, media_type="application/pdf"), l.54
\* (status_code defaults to 200)
SuccessResponse(bytes) ==
    [status |-> 200, media_type |-> "application/pdf", content |-> bytes]

\* An exception that leaves the handler: the application registers no
\* exception handler, so the server answers with its generic error.
ServerError ==
    [status |-> 500, media_type |-> "text/plain",
     content |-> "Internal Server Error"]

\* a probe that reports on the last OCR run instead of a fixed payload
HealthDegraded ==
    [status |-> 503, media_type |-> "application/json",
     content |-> [status |-> "degraded"]]

\* return {"status": "ok"}, l.17
HealthResponse ==
    [status |-> 200, media_type |-> "application/json",
     content |-> [status |-> "ok"]]

\* ------------------------------------------------------------ filesystem
Absent   == [input |-> NoFile, output |-> NoFile, exists |-> FALSE]
MkDir    == [input |-> NoFile, output |-> NoFile, exists |-> TRUE]

RawFile(c)     == [kind |-> "raw", data |-> c]
PartialFile(c) == [kind |-> "partial", data |-> c]
\* what the OCR tool writes for an input file: a PDF derived from that input
OcrOf(f)       == [kind |-> "ocr", data |-> f.data]

Least(S) == CHOOSE d \in S : \A e \in S : d <= e

\* mkdtemp without the exclusive mkdir: any name, taken or not
AnyName(f) == TmpNames

\* the child writes its output path from what its input path holds, when
\* both are there
ToolOutput(f, d) ==
    IF d \in TmpNames /\ f[d].exists /\ f[d].input # NoFile
    THEN [f EXCEPT ![d].output = OcrOf(f[d].input)] ELSE f

\* names mkdtemp may still use: it retries until the mkdir succeeds, so it
\* never returns a directory that already exists
FreshNames(f) == {d \in TmpNames : ~f[d].exists}

\* os.rmdir in place of rmtree: only an empty directory goes away
RemoveEmptyDir(f, d) ==
    IF f[d].input = NoFile /\ f[d].output = NoFile
    THEN [f EXCEPT ![d] = Absent] ELSE f

\* shutil.rmtree run by TemporaryDirectory.__exit__: the directory and
\* everything in it
RemoveTree(f, d) == [f EXCEPT ![d] = Absent]

\* subprocess.run without timeout=: no deadline ever passes
NoDeadline(e) == FALSE

\* subprocess.run(..., timeout=OCR_TIMEOUT_SECONDS): the deadline has passed
TimedOut(e) == e >= OCR_TIMEOUT_SECONDS

\* TimeoutExpired raised without killing the child
LeftRunning == "running"

\* state of a child after run() handled TimeoutExpired: kill() then wait(),
\* so the child is gone
AfterTimeout == "none"

\* ------------------------------------------------- outcome of the handler
Falls      == [kind |-> "fall"]           \* control leaves the with block
Raises     == [kind |-> "raise"]          \* an exception is propagating
Returns(x) == [kind |-> "return", response |-> x]

\* a handler that swallows its exceptions and answers with ocr_bytes anyway
OutcomeSwallow(p, bytes) ==
    CASE p.kind = "raise"  -> [status |-> 200, media_type |-> "application/pdf",
                               content |-> bytes]
      [] p.kind = "return" -> p.response
      [] p.kind = "fall"   -> [status |-> 200,
                               media_type |-> "application/pdf",
                               content |-> bytes]

\* what the client receives once the coroutine has finished
Outcome(p, bytes) ==
    CASE p.kind = "raise"  -> ServerError
      [] p.kind = "return" -> p.response
      [] p.kind = "fall"   -> SuccessResponse(bytes)

\* ------------------------------------------------------------------ state
VARIABLES
    route,      \* "ocr" or "health": the route each request is for
    pc,         \* position of each request's coroutine
    worker,     \* server process handling the request
    upload,     \* bytes the client sent
    contents,   \* l.23
    tmp,        \* l.25
    fs,         \* temporary directories on the shared filesystem
    proc,       \* state of the request's ocrmypdf child
    argv,       \* directory of the two paths passed to the child, l.37-38
    elapsed,    \* seconds the current run() has waited
    result,     \* l.31
    ocr_bytes,  \* l.52
    pending,    \* how control is leaving the handler
    resp,       \* response sent to the client
    running,    \* coroutine holding each worker's event loop
    trace       \* steps the running handler has performed, in order

vars == <<route, pc, worker, upload, contents, tmp, fs, proc, argv, elapsed,
          result, ocr_bytes, pending, resp, running, trace>>

Init ==
    /\ route     = [r \in Requests |-> "none"]
    /\ pc        = [r \in Requests |-> "new"]
    /\ worker    = [r \in Requests |-> NoWorker]
    /\ upload    = [r \in Requests |-> NoBytes]
    /\ contents  = [r \in Requests |-> NoBytes]
    /\ tmp       = [r \in Requests |-> NoDir]
    /\ fs        = [d \in TmpNames |-> Absent]
    /\ proc      = [r \in Requests |-> "none"]
    /\ argv      = [r \in Requests |-> NoDir]
    /\ elapsed   = [r \in Requests |-> 0]
    /\ result    = [r \in Requests |-> NoResult]
    /\ ocr_bytes = [r \in Requests |-> NoFile]
    /\ pending   = [r \in Requests |-> Falls]
    /\ resp      = [r \in Requests |-> NoResp]
    /\ running   = [w \in Workers |-> Idle]
    /\ trace     = [r \in Requests |-> <<>>]

Step(r, s) == trace' = [trace EXCEPT ![r] = Append(@, s)]

\* server processes request r may reach.  The processes are interchangeable,
\* so every way of spreading the requests over them is, up to renaming the
\* processes, one in which request r reaches one of the first r.
Reachable(r) == {w \in Workers : w <= r}

\* ----------------------------------------------------------- POST /ocr
\* a client sends POST /ocr with a file; a server process accepts it
PostOcr(r, w) ==
    /\ pc[r] = "new"
    /\ w \in Reachable(r)
    /\ route'  = [route EXCEPT ![r] = "ocr"]
    /\ pc'     = [pc EXCEPT ![r] = "arrived"]
    /\ worker' = [worker EXCEPT ![r] = w]
    /\ upload' = [upload EXCEPT ![r] = Document(r)]
    /\ UNCHANGED <<contents, tmp, fs, proc, argv, elapsed, result, ocr_bytes,
                   pending, resp, running, trace>>

\* l.23: contents = await file.read(); the coroutine runs when its loop is
\* free and yields the loop at the await
ReadUpload(r) ==
    /\ pc[r] = "arrived" /\ route[r] = "ocr"
    /\ running[worker[r]] = Idle
    /\ contents' = [contents EXCEPT ![r] = upload[r]]
    /\ pc' = [pc EXCEPT ![r] = "read"]
    /\ Step(r, "read_upload")
    /\ UNCHANGED <<route, worker, upload, tmp, fs, proc, argv, elapsed, result,
                   ocr_bytes, pending, resp, running>>

\* l.23 raises (the spooled upload cannot be read)
ReadUploadFail(r) ==
    /\ pc[r] = "arrived" /\ route[r] = "ocr"
    /\ running[worker[r]] = Idle
    /\ running' = [running EXCEPT ![worker[r]] = r]
    /\ pending' = [pending EXCEPT ![r] = Raises]
    /\ pc' = [pc EXCEPT ![r] = "leave"]
    /\ Step(r, "read_upload")
    /\ UNCHANGED <<route, worker, upload, contents, tmp, fs, proc, argv,
                   elapsed, result, ocr_bytes, resp>>

\* l.25: tempfile.TemporaryDirectory() creates a directory under a name no
\* existing directory has (names are interchangeable: the least one stands
\* for whichever mkdtemp draws); from here to the return nothing awaits, so
\* the coroutine keeps its worker's event loop
MkTemp(r) ==
    /\ pc[r] = "read"
    /\ running[worker[r]] = Idle
    /\ FreshNames(fs) # {}
    /\ running' = [running EXCEPT ![worker[r]] = r]
    /\ fs'  = [fs EXCEPT ![Least(FreshNames(fs))] = MkDir]
    /\ tmp' = [tmp EXCEPT ![r] = Least(FreshNames(fs))]
    /\ pc'  = [pc EXCEPT ![r] = "in_with"]
    /\ Step(r, "mkdtemp")
    /\ UNCHANGED <<route, worker, upload, contents, proc, argv, elapsed,
                   result, ocr_bytes, pending, resp>>

\* l.25 raises (no usable name, no space, no permission): no directory
MkTempFail(r) ==
    /\ pc[r] = "read"
    /\ running[worker[r]] = Idle
    /\ running' = [running EXCEPT ![worker[r]] = r]
    /\ pending' = [pending EXCEPT ![r] = Raises]
    /\ pc' = [pc EXCEPT ![r] = "leave"]
    /\ Step(r, "mkdtemp")
    /\ UNCHANGED <<route, worker, upload, contents, tmp, fs, proc, argv,
                   elapsed, result, ocr_bytes, resp>>

\* l.26-29: input_path.write_bytes(contents)
WriteInput(r) ==
    /\ pc[r] = "in_with"
    /\ fs' = [fs EXCEPT ![tmp[r]].input = RawFile(contents[r])]
    /\ pc' = [pc EXCEPT ![r] = "written"]
    /\ Step(r, "write_input")
    /\ UNCHANGED <<route, worker, upload, contents, tmp, proc, argv, elapsed,
                   result, ocr_bytes, pending, resp, running>>

\* l.29 raises part-way (disk full): a truncated input.pdf is left behind
WriteInputFail(r) ==
    /\ pc[r] = "in_with"
    /\ fs' = [fs EXCEPT ![tmp[r]].input = PartialFile(contents[r])]
    /\ pending' = [pending EXCEPT ![r] = Raises]
    /\ pc' = [pc EXCEPT ![r] = "exit_with"]
    /\ Step(r, "write_input")
    /\ UNCHANGED <<route, worker, upload, contents, tmp, proc, argv, elapsed,
                   result, ocr_bytes, resp, running>>

\* subprocess.run placed above the write of input.pdf
SpawnBeforeWrite(r) ==
    /\ pc[r] = "in_with"
    /\ proc'    = [proc EXCEPT ![r] = "running"]
    /\ argv'    = [argv EXCEPT ![r] = tmp[r]]
    /\ elapsed' = [elapsed EXCEPT ![r] = 0]
    /\ pc'      = [pc EXCEPT ![r] = "waiting"]
    /\ Step(r, "spawn")
    /\ UNCHANGED <<route, worker, upload, contents, tmp, fs, result, ocr_bytes,
                   pending, resp, running>>

\* l.31-42: subprocess.run starts ocrmypdf on the two paths and waits
Spawn(r) ==
    /\ pc[r] = "written"
    /\ proc'    = [proc EXCEPT ![r] = "running"]
    /\ argv'    = [argv EXCEPT ![r] = tmp[r]]
    /\ elapsed' = [elapsed EXCEPT ![r] = 0]
    /\ pc'      = [pc EXCEPT ![r] = "waiting"]
    /\ Step(r, "spawn")
    /\ UNCHANGED <<route, worker, upload, contents, tmp, fs, result, ocr_bytes,
                   pending, resp, running>>

\* l.31 raises before a child exists (ocrmypdf not found, fork fails)
SpawnFail(r) ==
    /\ pc[r] = "written"
    /\ pending' = [pending EXCEPT ![r] = Raises]
    /\ pc' = [pc EXCEPT ![r] = "exit_with"]
    /\ Step(r, "spawn")
    /\ UNCHANGED <<route, worker, upload, contents, tmp, fs, proc, argv,
                   elapsed, result, ocr_bytes, resp, running>>

\* a unit of wall-clock time passes while the child runs; the clock is not
\* followed beyond the deadline
Tick(r) ==
    /\ proc[r] = "running"
    /\ elapsed[r] < OCR_TIMEOUT_SECONDS
    /\ elapsed' = [elapsed EXCEPT ![r] = @ + TickSeconds]
    /\ UNCHANGED <<route, pc, worker, upload, contents, tmp, fs, proc, argv,
                   result, ocr_bytes, pending, resp, running, trace>>

\* the child ends before the deadline, having written its output or not;
\* run() reaps it and returns a CompletedProcess
ToolExit(r, run) ==
    /\ pc[r] = "waiting"
    /\ proc[r] = "running"
    /\ ~TimedOut(elapsed[r])
    /\ fs' = IF run.writes THEN ToolOutput(fs, argv[r]) ELSE fs
    /\ proc'   = [proc EXCEPT ![r] = "none"]
    /\ result' = [result EXCEPT ![r] =
                     [kind |-> "completed", returncode |-> run.returncode,
                      stderr |-> run.stderr]]
    /\ elapsed' = [elapsed EXCEPT ![r] = 0]
    /\ pc' = [pc EXCEPT ![r] = "have_result"]
    /\ Step(r, "wait")
    /\ UNCHANGED <<route, worker, upload, contents, tmp, argv, ocr_bytes,
                   pending, resp, running>>

\* l.41: the deadline passes with the child still running, whatever it has
\* written so far; run() kills it, reaps it and raises TimeoutExpired
Timeout(r, wrote) ==
    /\ pc[r] = "waiting"
    /\ proc[r] = "running"
    /\ TimedOut(elapsed[r])
    /\ fs' = IF wrote THEN ToolOutput(fs, argv[r]) ELSE fs
    /\ proc'    = [proc EXCEPT ![r] = AfterTimeout]
    /\ elapsed' = [elapsed EXCEPT ![r] = 0]
    /\ pending' = [pending EXCEPT ![r] = Raises]
    /\ pc' = [pc EXCEPT ![r] = "exit_with"]
    /\ Step(r, "wait")
    /\ UNCHANGED <<route, worker, upload, contents, tmp, argv, result,
                   ocr_bytes, resp, running>>

\* l.44-50: non-zero returncode, return the 422 response
ReturnFailure(r) ==
    /\ pc[r] = "have_result"
    /\ result[r].returncode # 0
    /\ pending' = [pending EXCEPT ![r] = Returns(FailureResponse(result[r]))]
    /\ pc' = [pc EXCEPT ![r] = "exit_with"]
    /\ UNCHANGED <<route, worker, upload, contents, tmp, fs, proc, argv,
                   elapsed, result, ocr_bytes, resp, running, trace>>

\* l.52: ocr_bytes = output_path.read_bytes()
ReadOutput(r) ==
    /\ pc[r] = "have_result"
    /\ result[r].returncode = 0
    /\ fs[tmp[r]].exists
    /\ fs[tmp[r]].output # NoFile
    /\ ocr_bytes' = [ocr_bytes EXCEPT ![r] = fs[tmp[r]].output]
    /\ pc' = [pc EXCEPT ![r] = "exit_with"]
    /\ Step(r, "read_output")
    /\ UNCHANGED <<route, worker, upload, contents, tmp, fs, proc, argv,
                   elapsed, result, pending, resp, running>>

\* l.52 raises: output.pdf is missing, or the read fails
ReadOutputFail(r) ==
    /\ pc[r] = "have_result"
    /\ result[r].returncode = 0
    /\ pending' = [pending EXCEPT ![r] = Raises]
    /\ pc' = [pc EXCEPT ![r] = "exit_with"]
    /\ Step(r, "read_output")
    /\ UNCHANGED <<route, worker, upload, contents, tmp, fs, proc, argv,
                   elapsed, result, ocr_bytes, resp, running>>

\* l.25: the with block is left, by return, by exception or by falling
\* through, and TemporaryDirectory.__exit__ removes the directory
Cleanup(r) ==
    /\ pc[r] = "exit_with"
    /\ fs' = RemoveTree(fs, tmp[r])
    /\ pc' = [pc EXCEPT ![r] = "leave"]
    /\ Step(r, "rmtree")
    /\ UNCHANGED <<route, worker, upload, contents, tmp, proc, argv, elapsed,
                   result, ocr_bytes, pending, resp, running>>

\* l.46, l.54 or a propagating exception: the coroutine finishes, the
\* response goes to the client, the frame and its locals are gone and the
\* event loop is free again
Respond(r) ==
    /\ pc[r] = "leave"
    /\ resp' = [resp EXCEPT ![r] = Outcome(pending[r], ocr_bytes[r])]
    /\ running' = [running EXCEPT ![worker[r]] = Idle]
    /\ pc' = [pc EXCEPT ![r] = "done"]
    /\ worker'    = [worker EXCEPT ![r] = NoWorker]
    /\ contents'  = [contents EXCEPT ![r] = NoBytes]
    /\ tmp'       = [tmp EXCEPT ![r] = NoDir]
    /\ argv'      = [argv EXCEPT ![r] = NoDir]
    /\ result'    = [result EXCEPT ![r] = NoResult]
    /\ ocr_bytes' = [ocr_bytes EXCEPT ![r] = NoFile]
    /\ pending'   = [pending EXCEPT ![r] = Falls]
    /\ trace'     = [trace EXCEPT ![r] = <<>>]
    /\ UNCHANGED <<route, upload, fs, proc, elapsed>>

\* --------------------------------------------------------- GET /health
\* a client sends GET /health; a server process accepts it
GetHealth(r, w) ==
    /\ pc[r] = "new"
    /\ w \in Reachable(r)
    /\ route'  = [route EXCEPT ![r] = "health"]
    /\ pc'     = [pc EXCEPT ![r] = "arrived"]
    /\ worker' = [worker EXCEPT ![r] = w]
    /\ UNCHANGED <<upload, contents, tmp, fs, proc, argv, elapsed, result,
                   ocr_bytes, pending, resp, running, trace>>

\* l.15-17: the coroutine runs when its worker's event loop is free, and
\* returns at once
health(r) ==
    /\ pc[r] = "arrived" /\ route[r] = "health"
    /\ running[worker[r]] = Idle
    /\ resp'   = [resp EXCEPT ![r] = HealthResponse]
    /\ pc'     = [pc EXCEPT ![r] = "done"]
    /\ worker' = [worker EXCEPT ![r] = NoWorker]
    /\ UNCHANGED <<route, upload, contents, tmp, fs, proc, argv, elapsed,
                   result, ocr_bytes, pending, running, trace>>

\* one step of the handler of request r
ocr_pdf(r) ==
    \/ ReadUpload(r)
    \/ ReadUploadFail(r)
    \/ MkTemp(r)
    \/ MkTempFail(r)
    \/ WriteInput(r)
    \/ WriteInputFail(r)
    \/ Spawn(r)
    \/ SpawnFail(r)
    \/ \E wrote \in BOOLEAN : Timeout(r, wrote)
    \/ ReturnFailure(r)
    \/ ReadOutput(r)
    \/ ReadOutputFail(r)
    \/ Cleanup(r)
    \/ Respond(r)

Next ==
    \/ \E r \in Requests, w \in Workers : PostOcr(r, w)
    \/ \E r \in Requests, w \in Workers : GetHealth(r, w)
    \/ \E r \in Requests : ocr_pdf(r)
    \/ \E r \in Requests : health(r)
    \/ \E r \in Requests : Tick(r)
    \/ \E r \in Requests, run \in ToolRuns : ToolExit(r, run)

Spec == Init /\ [][Next]_vars

\* some handler that can take a step does
Handlers == \E r \in Requests : ocr_pdf(r)

\* the wall clock of some running child advances
Clock == \E r \in Requests : Tick(r)

\* the operating system keeps running handlers that can take a step, and
\* the wall clock keeps advancing; nothing obliges a child to exit
FairSpec == Spec /\ WF_vars(Handlers) /\ WF_vars(Clock)

TypeOK ==
    /\ route \in [Requests -> {"none", "ocr", "health"}]
    /\ pc \in [Requests -> {"new", "arrived", "read", "in_with", "written",
                            "waiting", "have_result", "exit_with", "leave",
                            "done"}]
    /\ running \in [Workers -> Requests \cup {Idle}]
    /\ tmp \in [Requests -> TmpNames \cup {NoDir}]

\* ----------------------------------------------------------------- claims
Range(s) == {s[i] : i \in 1..Len(s)}

InWith(r) == pc[r] \in {"in_with", "written", "waiting", "have_result",
                        "exit_with"}

Completes(r) == pc[r] = "leave" /\ pc'[r] = "done"

\* C1: every temporary directory that exists belongs to a request that is
\* still inside its with block, and a directory that does not exist holds
\* no input.pdf and no output.pdf; so once a request has completed, however
\* it ended, its directory and both staged files are gone.
C1_NoTempAfterRequest ==
    \A d \in TmpNames :
        /\ fs[d].exists => \E r \in Requests : InWith(r) /\ tmp[r] = d
        /\ ~fs[d].exists => fs[d].input = NoFile /\ fs[d].output = NoFile

TimedOutTrace == <<"read_upload", "mkdtemp", "write_input", "spawn", "wait",
                    "rmtree">>

\* a request whose child was killed at the deadline has left its with block
TimedOutRequest(r) ==
    pc[r] = "leave" /\ trace[r] = TimedOutTrace /\ result[r] = NoResult

\* a timed-out request and a successful one have both staged files and
\* left their with blocks, and no directory is left
C1_Witness ==
    \E r, q \in Requests :
        /\ TimedOutRequest(r)
        /\ route[q] = "ocr" /\ pc[q] = "done" /\ resp[q].status = 200
        /\ \A d \in TmpNames : ~fs[d].exists

\* the body the claim expects for the sampled runs, written out
ExpectedFailureBody(res) ==
    CASE res.returncode = 15 /\ res.stderr = <<69, 255>>
           -> "ocrmypdf failed (exit 15): E\\ufffd"
      [] res.returncode = -9 /\ res.stderr = <<195, 169>>
           -> "ocrmypdf failed (exit -9): \\xe9"

\* C2: a request whose child exited with a non-zero code c and stderr s
\* completes with status 422, text/plain and the body
\* "ocrmypdf failed (exit c): s", and has not read the output file.
C2_NonZeroExitGives422 ==
    [][\A r \in Requests :
          (Completes(r) /\ result[r].kind = "completed"
             /\ result[r].returncode # 0)
          => /\ resp'[r] = [status |-> 422, media_type |-> "text/plain",
                            content |-> ExpectedFailureBody(result[r])]
             /\ "read_output" \notin Range(trace[r])]_vars

\* a child killed by signal 9 whose stderr was the two bytes of U+00E9
C2_Witness ==
    \E r \in Requests :
        /\ pc[r] = "done"
        /\ resp[r].status = 422
        /\ resp[r].content = "ocrmypdf failed (exit -9): \\xe9"

\* the PDF the tool derives from the document request r uploaded
OutputFor(r) == [kind |-> "ocr", data |-> Document(r)]

\* C3 as stated: a request whose child exited with code zero completes with
\* status 200, application/pdf and the bytes of the output file; and a 200
\* is produced only after a zero exit.
C3_ZeroExitGives200 ==
    [][\A r \in Requests :
          Completes(r)
          => /\ (result[r].kind = "completed" /\ result[r].returncode = 0)
                => resp'[r] = [status |-> 200,
                               media_type |-> "application/pdf",
                               content |-> OutputFor(r)]
             /\ resp'[r].status = 200
                => (result[r].kind = "completed"
                      /\ result[r].returncode = 0)]_vars

\* C3 amended: a request whose child exited with code zero and whose read
\* of output.pdf succeeded completes with status 200, application/pdf and
\* the bytes of the output file; when the read raised it completes with the
\* server's 500; and a 200 is produced only after a zero exit.
C3_ZeroExitAndReadGive200 ==
    [][\A r \in Requests :
          Completes(r)
          => /\ (result[r].kind = "completed" /\ result[r].returncode = 0
                   /\ pending[r].kind = "fall")
                => resp'[r] = [status |-> 200,
                               media_type |-> "application/pdf",
                               content |-> OutputFor(r)]
             /\ (result[r].kind = "completed" /\ result[r].returncode = 0
                   /\ pending[r].kind = "raise")
                => resp'[r].status = 500
             /\ resp'[r].status = 200
                => (result[r].kind = "completed"
                      /\ result[r].returncode = 0)]_vars

\* one request answered 200 with its PDF, another answered 500
C3_Witness ==
    \E r, q \in Requests :
        /\ route[r] = "ocr" /\ pc[r] = "done" /\ resp[r].status = 200
        /\ resp[r].content = OutputFor(r)
        /\ route[q] = "ocr" /\ pc[q] = "done" /\ resp[q].status = 500

\* C4: two requests inside their with blocks never hold the same temporary
\* directory; the files in a
\* request's directory and the paths given to its child come from that
\* request alone; and a 200 response carries the output made from the
\* request's own upload.
C4_RequestsIsolated ==
    /\ \A r, q \in Requests :
          (r # q /\ InWith(r) /\ InWith(q)) => tmp[r] # tmp[q]
    /\ \A r \in Requests :
          /\ InWith(r) => /\ fs[tmp[r]].exists
                          /\ fs[tmp[r]].input # NoFile
                             => fs[tmp[r]].input.data = Document(r)
                          /\ fs[tmp[r]].output # NoFile
                             => fs[tmp[r]].output = OutputFor(r)
          /\ proc[r] = "running" => argv[r] = tmp[r]
          /\ ocr_bytes[r] # NoFile => ocr_bytes[r] = OutputFor(r)
          /\ (route[r] = "ocr" /\ pc[r] = "done" /\ resp[r].status = 200)
             => resp[r].content = OutputFor(r)

\* two requests are inside their with blocks at the same time, each child
\* has written its output, and one request has already read its own
C4_Witness ==
    \E r, q \in Requests :
        /\ r # q
        /\ pc[r] = "exit_with" /\ ocr_bytes[r] = OutputFor(r)
        /\ pc[q] = "have_result" /\ fs[tmp[q]].output = OutputFor(q)

\* C5: a request waiting for its child always completes, whether or not the
\* child ever exits, and no child is left running by a completed request.
C5_WaitingCompletes ==
    \A r \in Requests :
        (pc[r] = "waiting") ~> (pc[r] = "done" /\ proc[r] # "running")

\* a request whose child was killed at the deadline is about to complete
\* and no child of it runs
C5_Witness ==
    \E r \in Requests : TimedOutRequest(r) /\ proc[r] # "running"

\* C6: a request has a response exactly when it has completed, and the
\* response is either 200 with a PDF or a non-2xx with a text/plain body.
C6_PdfOrDiagnostic ==
    \A r \in Requests :
        /\ pc[r] # "done" => resp[r] = NoResp
        /\ (pc[r] = "done" /\ route[r] = "ocr") =>
              IF resp[r].status = 200
              THEN /\ resp[r].media_type = "application/pdf"
                   /\ resp[r].content.kind = "ocr"
              ELSE /\ resp[r].status \notin 200..299
                   /\ resp[r].media_type = "text/plain"
                   /\ resp[r].content \in
                         {"Internal Server Error",
                          "ocrmypdf failed (exit 15): E\\ufffd",
                          "ocrmypdf failed (exit -9): \\xe9"}

\* all requests completed, one with the generic error and one with 422
C6_Witness ==
    \E r, q \in Requests :
        /\ pc[r] = "done" /\ resp[r] = [status |-> 500,
                                        media_type |-> "text/plain",
                                        content |-> "Internal Server Error"]
        /\ pc[q] = "done" /\ resp[q].status = 422

\* C7: whenever a health probe is answered, the answer is 200 with
\* {"status": "ok"}, and nothing of the service changes in that step.
C7_HealthFixedAndPure ==
    [][\A r \in Requests :
          (route'[r] = "health" /\ pc[r] # "done" /\ pc'[r] = "done")
          => /\ resp'[r] = [status |-> 200,
                            media_type |-> "application/json",
                            content |-> [status |-> "ok"]]
             /\ UNCHANGED <<route, upload, contents, tmp, fs, proc, argv,
                            elapsed, result, ocr_bytes, pending, running,
                            trace>>
             /\ \A q \in Requests \ {r} :
                   /\ pc'[q] = pc[q]
                   /\ resp'[q] = resp[q]
                   /\ worker'[q] = worker[q]]_vars

\* a probe answered after an upload ended with the generic error
C7_Witness ==
    \E r, q \in Requests :
        /\ route[r] = "health" /\ pc[r] = "done" /\ resp[r].status = 200
        /\ route[q] = "ocr" /\ pc[q] = "done" /\ resp[q].status = 500

Failed(r) == route[r] = "ocr" /\ pc[r] = "done" /\ resp[r].status # 200

\* C8: a failed request holds no event loop, has no child running, keeps no
\* local and owns no directory; requests that have not been sent can still
\* be sent; an arrived request whose worker is free can be read; and once
\* no request is in flight the service is as it was at the start.
C8_FailuresAreLocal ==
    /\ \A r \in Requests :
          Failed(r) =>
            /\ \A w \in Workers : running[w] # r
            /\ proc[r] # "running"
            /\ tmp[r] = NoDir /\ contents[r] = NoBytes
            /\ result[r] = NoResult /\ ocr_bytes[r] = NoFile
            /\ \A q \in Requests :
                  /\ pc[q] = "new" => ENABLED (\E w \in Workers : PostOcr(q, w))
                  /\ (pc[q] = "arrived" /\ route[q] = "ocr"
                        /\ \A o \in Requests : worker[o] = worker[q]
                               => pc[o] \in {"arrived", "read"})
                     => ENABLED ReadUpload(q)
    /\ (\E r \in Requests : Failed(r)) /\ (\A r \in Requests :
                                               pc[r] \in {"new", "done"})
       => /\ fs = [d \in TmpNames |-> Absent]
          /\ running = [w \in Workers |-> Idle]
          /\ \A r \in Requests : proc[r] # "running"

\* a request that ended with the generic error has completed and a later
\* upload waits to be read
C8_Witness ==
    \E r, q \in Requests :
        /\ Failed(r) /\ resp[r].status = 500
        /\ pc[q] = "arrived" /\ route[q] = "ocr"
        /\ running[worker[q]] = Idle

\* C9: while a request waits for its child, every other request that has
\* arrived, probe or upload, can take its next step.
C9_OthersNotStalled ==
    \A r \in Requests :
        pc[r] = "waiting" =>
          \A q \in Requests :
              /\ (pc[q] = "arrived" /\ route[q] = "health")
                 => ENABLED health(q)
              /\ (pc[q] = "arrived" /\ route[q] = "ocr")
                 => ENABLED ReadUpload(q)
              /\ pc[q] = "read" => ENABLED MkTempFail(q)

Rank(s) ==
    CASE s = "read_upload" -> 1 [] s = "mkdtemp" -> 2 [] s = "write_input" -> 3
      [] s = "spawn" -> 4 [] s = "wait" -> 5 [] s = "read_output" -> 6
      [] s = "rmtree" -> 7

\* the step of rank n, when taken, directly follows the step of rank m
Follows(t, n, m) ==
    \A i \in 1..Len(t) :
        Rank(t[i]) = n => (i > 1 /\ Rank(t[i - 1]) = m)

\* C10: the steps of a request are taken in the order read upload, make
\* directory, write input, start child, wait, read output, remove
\* directory, each at most once and each directly after the one before it
\* (the removal after whichever step left the with block); the child runs
\* only on a complete input.pdf, the output is read only after a zero exit
\* and before the directory is removed, and a request that made a directory
\* answers only after removing it.
C10_StepsInOrder ==
    \A r \in Requests :
        LET t == trace[r] IN
        /\ \A i, j \in 1..Len(t) : i < j => Rank(t[i]) < Rank(t[j])
        /\ Follows(t, 2, 1) /\ Follows(t, 3, 2) /\ Follows(t, 4, 3)
        /\ Follows(t, 5, 4) /\ Follows(t, 6, 5)
        /\ "rmtree" \in Range(t) => "mkdtemp" \in Range(t)
        /\ pc[r] = "waiting"
           => fs[tmp[r]].input = [kind |-> "raw", data |-> Document(r)]
        /\ "read_output" \in Range(t)
           => /\ result[r].kind = "completed" /\ result[r].returncode = 0
              /\ "rmtree" \notin Range(t) => fs[tmp[r]].exists
        /\ pc[r] = "leave"
           => /\ "read_upload" \in Range(t)
              /\ tmp[r] # NoDir => t[Len(t)] = "rmtree"
        /\ resp[r] # NoResp => pc[r] = "done"

\* a request about to complete after all seven steps
C10_Witness ==
    \E r \in Requests :
        /\ pc[r] = "leave"
        /\ trace[r] = <<"read_upload", "mkdtemp", "write_input", "spawn",
                        "wait", "read_output", "rmtree">>

====
